---- MODULE Spec2Model ----
(***************************************************************************)
(* Model of python/triton/language/semantic.py: the semantic-analysis and  *)
(* lowering layer.  A lowering call takes typed Values and an IR builder,  *)
(* appends instructions to the builder and returns a Value or raises.      *)
(*                                                                         *)
(* Every lowering function is an operator over (operands, builder) that    *)
(* returns an outcome record: the raised exception (if any), the returned  *)
(* Values / dtype / shape, and the builder as the call left it.            *)
(***************************************************************************)
EXTENDS Integers, Sequences, FiniteSets, TLC

\* Bounds of the operand shapes that the calls are tried on.
MaxRank == 2
MaxDim == 3

(***************************************************************************)
(* Type model (core.dtype, core.pointer_type, core.block_type).            *)
(* A scalar kind is a record; `element` is <<pointee>> for a pointer and   *)
(* <<>> otherwise.                                                         *)
(***************************************************************************)
int_ty(w, sn) ==
  [name |-> "int", width |-> w, signedness |-> sn, element |-> <<>>, address_space |-> 0]

fp_ty(n, w) ==
  [name |-> n, width |-> w, signedness |-> "NONE", element |-> <<>>, address_space |-> 0]

pointer_type(elt, as) ==
  [name |-> "ptr", width |-> 64, signedness |-> "NONE", element |-> <<elt>>, address_space |-> as]

int1 == int_ty(1, "SIGNED")
int8 == int_ty(8, "SIGNED")
int16 == int_ty(16, "SIGNED")
int32 == int_ty(32, "SIGNED")
int64 == int_ty(64, "SIGNED")
uint8 == int_ty(8, "UNSIGNED")
uint16 == int_ty(16, "UNSIGNED")
uint32 == int_ty(32, "UNSIGNED")
uint64 == int_ty(64, "UNSIGNED")
float16 == fp_ty("fp16", 16)
bfloat16 == fp_ty("bf16", 16)
float32 == fp_ty("fp32", 32)
float64 == fp_ty("fp64", 64)

is_int(t) == t.name = "int"
is_bool(t) == t.name = "int" /\ t.width = 1
is_fp16(t) == t.name = "fp16"
is_bf16(t) == t.name = "bf16"
is_fp32(t) == t.name = "fp32"
is_fp64(t) == t.name = "fp64"
is_floating(t) == t.name \in {"fp16", "bf16", "fp32", "fp64"}
is_ptr(t) == t.name = "ptr"
is_int_signed(t) == t.name = "int" /\ t.signedness = "SIGNED"
int_bitwidth(t) == t.width
int_signedness(t) == t.signedness
element(t) == t.element[1]

\* Only the relative order of the mantissa widths is used:
\* fp16 < bf16 < fp32 < fp64.
get_fp_mantissa_width(t) ==
  IF t.name = "fp16" THEN 1
  ELSE IF t.name = "bf16" THEN 2
  ELSE IF t.name = "fp32" THEN 3
  ELSE 4

\* A block type pairs a scalar kind with a shape; a scalar has shape <<>>.
block_type(sca, shape) == [scalar |-> sca, shape |-> shape]
scalar_type(sca) == [scalar |-> sca, shape |-> <<>>]
is_block(ty) == Len(ty.shape) > 0
get_block_shapes(ty) == ty.shape

\* core.block(handle, type): an IR handle paired with its static type.
block(h, ty) == [handle |-> h, type |-> ty]

(***************************************************************************)
(* IR builder: the sequence of instructions appended so far.  The handle   *)
(* of an instruction is its position; operands passed in and constants     *)
(* have handles of their own.                                              *)
(***************************************************************************)
ArgHandle(i) == [src |-> "arg", id |-> i]
InstHandle(i) == [src |-> "inst", id |-> i]
ConstHandle(n) == [src |-> n, id |-> 0]

Inst(op, args, ty, shape, attrs) ==
  [op |-> op, args |-> args, ty |-> ty, shape |-> shape, attrs |-> attrs]

\* builder.create_*: append one instruction.
Emit(b, op, args, ty, shape, attrs) == Append(b, Inst(op, args, ty, shape, attrs))

\* the handle of the instruction appended last
Last(b) == InstHandle(Len(b))

(***************************************************************************)
(* Outcomes and exceptions.                                                *)
(***************************************************************************)
Exc(class, msg, types, nums) ==
  [class |-> class, msg |-> msg, types |-> types, nums |-> nums]

\* class IncompatibleTypeErrorimpl(type_a, type_b)
IncompatibleTypeErrorimpl(type_a, type_b) ==
  Exc("IncompatibleTypeError", "invalid operands", <<type_a, type_b>>, <<>>)

AssertionError == Exc("AssertionError", "assert False", <<>>, <<>>)

Ok(b, vals) == [err |-> <<>>, val |-> vals, ty |-> <<>>, shape |-> <<>>, b |-> b]
OkTy(b, t) == [err |-> <<>>, val |-> <<>>, ty |-> <<t>>, shape |-> <<>>, b |-> b]
OkShape(b, s) == [err |-> <<>>, val |-> <<>>, ty |-> <<>>, shape |-> <<s>>, b |-> b]
Raise(b, e) == [err |-> <<e>>, val |-> <<>>, ty |-> <<>>, shape |-> <<>>, b |-> b]

Failed(r) == r.err # <<>>

(***************************************************************************)
(* Implicit casting utilities.                                             *)
(***************************************************************************)
\* Functions that take no builder return their outcome over the empty one.
Return(t) == OkTy(<<>>, t)
Throw(e) == Raise(<<>>, e)

\* integer_promote_impl with > for >= at line 40
integer_promote_strict(a_ty, b_ty) ==
  LET a_rank == int_bitwidth(a_ty)
      b_rank == int_bitwidth(b_ty)
      a_sn == int_signedness(a_ty)
      b_sn == int_signedness(b_ty)
  IN  IF a_sn = b_sn
        THEN Return(IF a_rank > b_rank THEN a_ty ELSE b_ty)
      ELSE IF a_sn = "UNSIGNED"
        THEN Return(IF a_rank > b_rank THEN a_ty ELSE b_ty)
      ELSE IF b_sn = "UNSIGNED"
        THEN Return(IF b_rank >= a_rank THEN b_ty ELSE a_ty)
      ELSE Throw(AssertionError)

\* integer_promote_impl with the operands of line 38 exchanged
integer_promote_narrow(a_ty, b_ty) ==
  LET a_rank == int_bitwidth(a_ty)
      b_rank == int_bitwidth(b_ty)
      a_sn == int_signedness(a_ty)
      b_sn == int_signedness(b_ty)
  IN  IF a_sn = b_sn
        THEN Return(IF a_rank > b_rank THEN b_ty ELSE a_ty)
      ELSE IF a_sn = "UNSIGNED"
        THEN Return(IF a_rank >= b_rank THEN a_ty ELSE b_ty)
      ELSE IF b_sn = "UNSIGNED"
        THEN Return(IF b_rank >= a_rank THEN b_ty ELSE a_ty)
      ELSE Throw(AssertionError)

integer_promote_impl(a_ty, b_ty) ==
  LET a_rank == int_bitwidth(a_ty)
      b_rank == int_bitwidth(b_ty)
      a_sn == int_signedness(a_ty)
      b_sn == int_signedness(b_ty)
  IN  IF a_sn = b_sn
        THEN Return(IF a_rank > b_rank THEN a_ty ELSE b_ty)
      ELSE IF a_sn = "UNSIGNED"
        THEN Return(IF a_rank >= b_rank THEN a_ty ELSE b_ty)
      ELSE IF b_sn = "UNSIGNED"
        THEN Return(IF b_rank >= a_rank THEN b_ty ELSE a_ty)
      ELSE Throw(AssertionError)

SignednessError(a_ty, b_ty) ==
  Exc("ValueError", "different signedness", <<a_ty, b_ty>>, <<>>)

computation_type_impl(a_ty, b_ty, div_or_mod) ==
  IF is_fp64(a_ty) \/ is_fp64(b_ty) THEN Return(float64)
  ELSE IF is_fp32(a_ty) \/ is_fp32(b_ty) THEN Return(float32)
  ELSE IF is_fp16(a_ty) \/ is_fp16(b_ty)
    THEN (IF div_or_mod THEN Return(float32) ELSE Return(float16))
  ELSE IF ~is_int(a_ty) \/ ~is_int(b_ty) THEN Throw(AssertionError)
  ELSE IF div_or_mod /\ int_signedness(a_ty) # int_signedness(b_ty)
    THEN Throw(SignednessError(a_ty, b_ty))
  ELSE integer_promote_impl(a_ty, b_ty)

(***************************************************************************)
(* Shape manipulation.                                                     *)
(***************************************************************************)
RankError == Exc("ValueError", "blocks must have the same rank", <<>>, <<>>)

\* incompatible dimensions at index i (0-based): left and right
DimensionError(i, left, right) ==
  Exc("ValueError", "incompatible dimensions at index", <<>>, <<i, left, right>>)

\* the loop with line 473 appending right instead of left
RECURSIVE ret_shape_loop_right(_, _, _, _)
ret_shape_loop_right(lhs_shape, rhs_shape, i, ret_shape) ==
  IF i > Len(lhs_shape) THEN OkShape(<<>>, ret_shape)
  ELSE LET left == lhs_shape[i]
           right == rhs_shape[i]
       IN  IF left = 1
             THEN ret_shape_loop_right(lhs_shape, rhs_shape, i + 1, Append(ret_shape, right))
           ELSE IF right = 1
             THEN ret_shape_loop_right(lhs_shape, rhs_shape, i + 1, Append(ret_shape, right))
           ELSE IF left = right
             THEN ret_shape_loop_right(lhs_shape, rhs_shape, i + 1, Append(ret_shape, left))
           ELSE Throw(DimensionError(i - 1, left, right))

\* the loop of broadcast_impl_value over the axes, from axis i (1-based here)
RECURSIVE ret_shape_loop(_, _, _, _)
ret_shape_loop(lhs_shape, rhs_shape, i, ret_shape) ==
  IF i > Len(lhs_shape) THEN OkShape(<<>>, ret_shape)
  ELSE LET left == lhs_shape[i]
           right == rhs_shape[i]
       IN  IF left = 1
             THEN ret_shape_loop(lhs_shape, rhs_shape, i + 1, Append(ret_shape, right))
           ELSE IF right = 1
             THEN ret_shape_loop(lhs_shape, rhs_shape, i + 1, Append(ret_shape, left))
           ELSE IF left = right
             THEN ret_shape_loop(lhs_shape, rhs_shape, i + 1, Append(ret_shape, left))
           ELSE Throw(DimensionError(i - 1, left, right))

\* the block/block branch of broadcast_impl_value up to the resolved shape
make_shape_compatible(lhs_shape, rhs_shape) ==
  IF Len(lhs_shape) # Len(rhs_shape) THEN Throw(RankError)
  ELSE ret_shape_loop(lhs_shape, rhs_shape, 1, <<>>)

broadcast_impl_value(lhs, rhs, b) ==
  LET lhs_ty == lhs.type
      rhs_ty == rhs.type
  IN  IF is_block(lhs_ty) /\ ~is_block(rhs_ty) THEN
        LET ret_ty == lhs_ty
            b1 == Emit(b, "splat", <<rhs.handle>>, <<>>, get_block_shapes(lhs_ty), <<>>)
        IN  Ok(b1, <<lhs, block(Last(b1), ret_ty)>>)
      ELSE IF ~is_block(lhs_ty) /\ is_block(rhs_ty) THEN
        LET ret_ty == rhs_ty
            b1 == Emit(b, "splat", <<lhs.handle>>, <<>>, get_block_shapes(rhs_ty), <<>>)
        IN  Ok(b1, <<block(Last(b1), ret_ty), rhs>>)
      ELSE IF is_block(lhs_ty) /\ is_block(rhs_ty) THEN
        LET lhs_shape == get_block_shapes(lhs_ty)
            rhs_shape == get_block_shapes(rhs_ty)
            r == make_shape_compatible(lhs_shape, rhs_shape)
        IN  IF Failed(r) THEN Raise(b, r.err[1])
            ELSE
              LET ret_shape == r.shape[1]
                  b1 == IF lhs_shape # ret_shape
                          THEN Emit(b, "broadcast", <<lhs.handle>>, <<>>, ret_shape, <<>>)
                          ELSE b
                  lhs1 == IF lhs_shape # ret_shape
                            THEN block(Last(b1), block_type(lhs_ty.scalar, ret_shape))
                            ELSE lhs
                  b2 == IF rhs_shape # ret_shape
                          THEN Emit(b1, "broadcast", <<rhs.handle>>, <<>>, ret_shape, <<>>)
                          ELSE b1
                  rhs1 == IF rhs_shape # ret_shape
                            THEN block(Last(b2), block_type(rhs_ty.scalar, ret_shape))
                            ELSE rhs
              IN  Ok(b2, <<lhs1, rhs1>>)
      ELSE Ok(b, <<lhs, rhs>>)

(***************************************************************************)
(* cast, and the binary type checking it shares with the operators.        *)
(***************************************************************************)
\* Sequencing: an exception raised by a callee ends the caller with it;
\* otherwise the caller goes on with the callee's outcome.
Then(r, Continue(_)) == IF Failed(r) THEN r ELSE Continue(r)

\* the outcome of a builder-less function, seen from a caller whose builder is b
At(b, r) == [r EXCEPT !.b = b]

\* check_ptr_type_impl raises or returns nothing: <<>> or <<exception>>
check_ptr_type_impl(type_a, type_b, allow_ptr_a) ==
  IF is_ptr(type_a) THEN
    IF ~allow_ptr_a THEN <<IncompatibleTypeErrorimpl(type_a, type_b)>>
    ELSE IF is_ptr(type_b) /\ type_a # type_b THEN <<IncompatibleTypeErrorimpl(type_a, type_b)>>
    ELSE IF is_floating(type_b) THEN <<IncompatibleTypeErrorimpl(type_a, type_b)>>
    ELSE <<>>
  ELSE <<>>

\* the name `case` looked up at line 526 is bound nowhere in the module
NameError_case == Exc("NameError", "name 'case' is not defined", <<>>, <<>>)

RECURSIVE cast(_, _, _)

\* binary_op_type_checking_impl after the broadcast (lines 96-104)
implicit_typecast(lhs, rhs, b, allow_lhs_ptr, allow_rhs_ptr, arithmetic_check, div_or_mod) ==
  LET lhs_sca_ty == lhs.type.scalar
      rhs_sca_ty == rhs.type.scalar
      e1 == check_ptr_type_impl(lhs_sca_ty, rhs_sca_ty, allow_lhs_ptr)
      e2 == check_ptr_type_impl(rhs_sca_ty, lhs_sca_ty, allow_rhs_ptr)
  IN  IF e1 # <<>> THEN Raise(b, e1[1])
      ELSE IF e2 # <<>> THEN Raise(b, e2[1])
      ELSE IF arithmetic_check /\ ~is_ptr(lhs_sca_ty) /\ ~is_ptr(rhs_sca_ty) THEN
        Then(At(b, computation_type_impl(lhs_sca_ty, rhs_sca_ty, div_or_mod)), LAMBDA ct :
          Then(cast(lhs, ct.ty[1], b), LAMBDA c1 :
            Then(cast(rhs, ct.ty[1], c1.b), LAMBDA c2 :
              Ok(c2.b, <<c1.val[1], c2.val[1]>>))))
      ELSE Ok(b, <<lhs, rhs>>)

binary_op_type_checking_impl(lhs, rhs, b, allow_lhs_ptr, allow_rhs_ptr, arithmetic_check, div_or_mod) ==
  Then(broadcast_impl_value(lhs, rhs, b), LAMBDA r :
    implicit_typecast(r.val[1], r.val[2], r.b,
                      allow_lhs_ptr, allow_rhs_ptr, arithmetic_check, div_or_mod))

\* one instruction on both operands, returned as a block of type ty
Binary(b, op, input, other, ty) ==
  Ok(Emit(b, op, <<input.handle, other.handle>>, <<>>, <<>>, <<>>),
     <<block(InstHandle(Len(b) + 1), ty)>>)

\* not_equal after the type checking (lines 394-401)
not_equal_dispatch(input, other, b) ==
  IF is_floating(input.type.scalar) THEN Binary(b, "fcmpUNE", input, other, input.type)
  ELSE IF is_int(input.type.scalar) THEN Binary(b, "icmpNE", input, other, input.type)
  ELSE Raise(b, AssertionError)

not_equal(input, other, b) ==
  Then(binary_op_type_checking_impl(input, other, b, FALSE, FALSE, TRUE, FALSE), LAMBDA r :
    not_equal_dispatch(r.val[1], r.val[2], r.b))

\* one conversion instruction to dst_ty, returned as a block of dst_ty
Convert(b, op, input, dst_ty, attrs) ==
  Ok(Emit(b, op, <<input.handle>>, <<dst_ty>>, <<>>, attrs),
     <<block(InstHandle(Len(b) + 1), dst_ty)>>)

\* the comparison against zero of the `* . Bool` rule (lines 598-601)
compare_to_zero(input, src_ty, dst_ty, b) ==
  IF is_bool(src_ty.scalar)
    THEN Ok(Emit(Emit(b, "splat", <<ConstHandle("int64_0")>>, <<>>,
                      get_block_shapes(src_ty), <<>>),
                 "icmpNE", <<input.handle, InstHandle(Len(b) + 1)>>, <<>>, <<>>, <<>>),
            <<block(InstHandle(Len(b) + 2), dst_ty)>>)
    ELSE Ok(Emit(b, "icmpNE", <<input.handle, ConstHandle("int64_0")>>, <<>>, <<>>, <<>>),
            <<block(InstHandle(Len(b) + 1), dst_ty)>>)

\* sign_extend that leaves out the test for the 1-bit boolean
sign_extend_bool(src_sca_ty) == is_int_signed(src_sca_ty)

\* the extension an integer cast asks for (line 550)
sign_extend(src_sca_ty) == is_int_signed(src_sca_ty) /\ src_sca_ty # int1

\* cast below the identity test (lines 520-602): the decision tree
cast_convert(input, src_ty, dst_ty, b) ==
  LET src_sca_ty == src_ty.scalar
      dst_sca_ty == dst_ty.scalar
      truncate_fp == /\ is_floating(src_sca_ty)
                     /\ is_floating(dst_sca_ty)
                     /\ get_fp_mantissa_width(src_sca_ty) > get_fp_mantissa_width(dst_sca_ty)
      ext_fp == /\ is_floating(src_sca_ty)
                /\ is_floating(dst_sca_ty)
                /\ get_fp_mantissa_width(src_sca_ty) < get_fp_mantissa_width(dst_sca_ty)
  IN  \* bf16 <=> (not fp32)
      IF \/ (is_bf16(src_sca_ty) /\ ~is_fp32(dst_sca_ty))
         \/ (is_bf16(dst_sca_ty) /\ ~is_fp32(src_sca_ty))
        THEN Raise(b, NameError_case)
      ELSE IF truncate_fp THEN Convert(b, "fp_trunc", input, dst_ty, <<>>)
      ELSE IF ext_fp THEN Convert(b, "fp_ext", input, dst_ty, <<>>)
      \* Int cast
      ELSE IF /\ is_int(src_sca_ty)
              /\ is_int(dst_sca_ty)
              /\ \/ int_bitwidth(src_sca_ty) # int_bitwidth(dst_sca_ty)
                 \/ int_signedness(src_sca_ty) # int_signedness(dst_sca_ty)
        THEN Convert(b, "int_cast", input, dst_ty,
                     IF sign_extend(src_sca_ty) THEN <<"sign_extend">> ELSE <<"zero_extend">>)
      \* Float to Int
      ELSE IF is_floating(src_sca_ty) /\ is_int(dst_sca_ty)
        THEN (IF is_bool(dst_sca_ty)
                THEN Convert(b, "fp_to_ui", input, dst_ty, <<>>)
                ELSE Convert(b, "fp_to_si", input, dst_ty, <<>>))
      \* int => float
      ELSE IF is_int(src_sca_ty) /\ is_floating(dst_sca_ty)
        THEN (IF is_bool(src_sca_ty) \/ ~is_int_signed(src_sca_ty)
                THEN Convert(b, "ui_to_fp", input, dst_ty, <<>>)
                ELSE Convert(b, "si_to_fp", input, dst_ty, <<>>))
      \* ptr => int
      ELSE IF is_ptr(src_sca_ty) /\ is_int(dst_sca_ty) /\ int_bitwidth(dst_sca_ty) = 64
        THEN Convert(b, "PtrToInt", input, dst_ty, <<>>)
      ELSE IF is_ptr(src_sca_ty) /\ is_int(dst_sca_ty) /\ int_bitwidth(dst_sca_ty) = 1
        THEN Then(cast(input, int64, b), LAMBDA c :
               not_equal(c.val[1], block(ConstHandle("int64_0"), scalar_type(int64)), c.b))
      ELSE IF ~is_ptr(src_sca_ty) /\ is_ptr(dst_sca_ty)
        THEN Convert(b, "int_to_ptr", input, dst_ty, <<>>)
      \* Ptr . Ptr
      ELSE IF is_ptr(src_sca_ty) /\ is_ptr(dst_sca_ty)
        THEN Convert(b, "bitcast", input, dst_ty, <<>>)
      \* * . Bool
      ELSE IF is_bool(dst_sca_ty)
        THEN Then(IF is_ptr(src_sca_ty) THEN cast(input, int64, b) ELSE Ok(b, <<input>>),
                  LAMBDA c : compare_to_zero(c.val[1], src_ty, dst_ty, c.b))
      ELSE Raise(b, AssertionError)

\* the type cast gives a value of type src_ty for the scalar kind dst_sca
cast_dst_ty(src_ty, dst_sca) ==
  IF is_block(src_ty)
    THEN block_type(dst_sca, get_block_shapes(src_ty))
    ELSE scalar_type(dst_sca)

\* cast without the identity test
cast_no_identity(input, dst_sca, b) ==
  cast_convert(input, input.type, cast_dst_ty(input.type, dst_sca), b)

cast(input, dst_sca, b) ==
  IF input.type = cast_dst_ty(input.type, dst_sca)
    THEN Ok(b, <<input>>)
    ELSE cast_convert(input, input.type, cast_dst_ty(input.type, dst_sca), b)

(***************************************************************************)
(* What the emitted integer conversions compute.  A bit pattern is the     *)
(* sequence of its bits, least significant first.                          *)
(***************************************************************************)
\* create_int_cast: keep the low bits, or extend with the sign bit or zeros
int_cast_value(bits, width, is_signed) ==
  [i \in 1..width |->
     IF i <= Len(bits) THEN bits[i]
     ELSE IF is_signed THEN bits[Len(bits)] ELSE 0]

\* the bits of handle h when the operand of the call holds the bits x
RECURSIVE Run(_, _, _)
Run(b, h, x) ==
  IF h.src # "inst" THEN x
  ELSE IF b[h.id].op = "int_cast"
    THEN int_cast_value(Run(b, b[h.id].args[1], x),
                        int_bitwidth(b[h.id].ty[1].scalar),
                        b[h.id].attrs = <<"sign_extend">>)
  ELSE Run(b, b[h.id].args[1], x)

(***************************************************************************)
(* Binary operators.                                                       *)
(***************************************************************************)
\* add after the type checking (lines 111-125); the scalar types are read
\* before the operands are swapped and not again
add_dispatch(input, other, b) ==
  LET input_scalar_ty == input.type.scalar
      other_scalar_ty == other.type.scalar
      swap == is_ptr(other_scalar_ty) /\ ~is_ptr(input_scalar_ty)
      input1 == IF swap THEN other ELSE input
      other1 == IF swap THEN input ELSE other
  IN  IF is_ptr(input_scalar_ty) THEN Binary(b, "gep", input1, other1, input1.type)
      ELSE IF is_floating(input_scalar_ty) THEN Binary(b, "fadd", input1, other1, input1.type)
      ELSE IF is_int(input_scalar_ty) THEN Binary(b, "add", input1, other1, input1.type)
      ELSE Raise(b, AssertionError)

add(input, other, b) ==
  Then(binary_op_type_checking_impl(input, other, b, TRUE, TRUE, TRUE, FALSE), LAMBDA r :
    add_dispatch(r.val[1], r.val[2], r.b))

MinusPtrError(ty) == Exc("ValueError", "wrong type argument to unary minus", <<ty>>, <<>>)

RECURSIVE sub(_, _, _)

minus(input, b) ==
  IF is_ptr(input.type.scalar) THEN Raise(b, MinusPtrError(input.type.scalar))
  ELSE sub(block(ConstHandle("null"), scalar_type(input.type.scalar)), input, b)

\* sub after the type checking (lines 131-142)
sub_dispatch(input, other, b) ==
  IF is_ptr(input.type.scalar)
    THEN Then(minus(other, b), LAMBDA m : Binary(m.b, "gep", input, m.val[1], input.type))
  ELSE IF is_floating(input.type.scalar) THEN Binary(b, "fsub", input, other, input.type)
  ELSE IF is_int(input.type.scalar) THEN Binary(b, "sub", input, other, input.type)
  ELSE Raise(b, AssertionError)

sub(input, other, b) ==
  Then(binary_op_type_checking_impl(input, other, b, TRUE, FALSE, TRUE, FALSE), LAMBDA r :
    sub_dispatch(r.val[1], r.val[2], r.b))

\* mul after the type checking (lines 148-155)
mul_dispatch(input, other, b) ==
  IF is_floating(input.type.scalar) THEN Binary(b, "fmul", input, other, input.type)
  ELSE IF is_int(input.type.scalar) THEN Binary(b, "mul", input, other, input.type)
  ELSE Raise(b, AssertionError)

mul(input, other, b) ==
  Then(binary_op_type_checking_impl(input, other, b, FALSE, FALSE, TRUE, FALSE), LAMBDA r :
    mul_dispatch(r.val[1], r.val[2], r.b))

\* truediv_emit that leaves the divisor as it is
truediv_emit_one_cast(b, input, other, to_in, to_ot) ==
  Then(IF to_in # <<>> THEN cast(input, to_in[1], b) ELSE Ok(b, <<input>>), LAMBDA c1 :
    Binary(c1.b, "fdiv", c1.val[1], other, c1.val[1].type))

\* the casts of a truediv branch, then the divide (line 182): to_in / to_ot
\* are <<kind>> to cast that operand, <<>> to leave it
truediv_emit(b, input, other, to_in, to_ot) ==
  Then(IF to_in # <<>> THEN cast(input, to_in[1], b) ELSE Ok(b, <<input>>), LAMBDA c1 :
    Then(IF to_ot # <<>> THEN cast(other, to_ot[1], c1.b) ELSE Ok(c1.b, <<other>>), LAMBDA c2 :
      Binary(c2.b, "fdiv", c1.val[1], c2.val[1], c1.val[1].type)))

\* truediv after the type checking (lines 161-182)
truediv_dispatch(input, other, b) ==
  LET input_scalar_ty == input.type.scalar
      other_scalar_ty == other.type.scalar
  IN  \* float / int
      IF is_floating(input_scalar_ty) /\ is_int(other_scalar_ty)
        THEN truediv_emit(b, input, other, <<>>, <<input_scalar_ty>>)
      \* int / float
      ELSE IF is_int(input_scalar_ty) /\ is_floating(other_scalar_ty)
        THEN truediv_emit(b, input, other, <<other_scalar_ty>>, <<>>)
      \* int / int (cast to float32)
      ELSE IF is_int(input_scalar_ty) /\ is_int(other_scalar_ty)
        THEN truediv_emit(b, input, other, <<float32>>, <<float32>>)
      \* float / float (cast to highest exponent type)
      ELSE IF is_floating(input_scalar_ty) /\ is_floating(other_scalar_ty)
        THEN (IF get_fp_mantissa_width(input_scalar_ty) > get_fp_mantissa_width(other_scalar_ty)
                THEN truediv_emit(b, input, other, <<>>, <<input_scalar_ty>>)
                ELSE truediv_emit(b, input, other, <<other_scalar_ty>>, <<>>))
      ELSE Raise(b, AssertionError)

truediv(input, other, b) ==
  Then(binary_op_type_checking_impl(input, other, b, FALSE, FALSE, TRUE, TRUE), LAMBDA r :
    truediv_dispatch(r.val[1], r.val[2], r.b))

\* floordiv after the type checking (lines 188-198)
floordiv_dispatch(input, other, b) ==
  IF is_int(input.type.scalar) /\ is_int(other.type.scalar) THEN
    Then(At(b, integer_promote_impl(input.type.scalar, other.type.scalar)), LAMBDA p :
      Then(cast(input, p.ty[1], b), LAMBDA c1 :
        Then(cast(other, p.ty[1], c1.b), LAMBDA c2 :
          Binary(c2.b, IF is_int_signed(p.ty[1]) THEN "sdiv" ELSE "udiv",
                 c1.val[1], c2.val[1], c1.val[1].type))))
  ELSE Raise(b, AssertionError)

floordiv(input, other, b) ==
  Then(binary_op_type_checking_impl(input, other, b, FALSE, FALSE, TRUE, TRUE), LAMBDA r :
    floordiv_dispatch(r.val[1], r.val[2], r.b))

FdivKindError == Exc("ValueError", "both operands of fdiv must have floating poscalar type", <<>>, <<>>)

\* fdiv after the type checking (lines 208-210): one fdiv carrying the
\* rounding flag
fdiv_emit(input, other, ieee_rounding, b) ==
  Ok(Emit(b, "fdiv", <<input.handle, other.handle>>, <<>>, <<>>, <<ieee_rounding>>),
     <<block(InstHandle(Len(b) + 1), input.type)>>)

\* the operands' kinds are tested before binary_op_type_checking_impl runs
fdiv(input, other, ieee_rounding, b) ==
  IF ~is_floating(input.type.scalar) \/ ~is_floating(other.type.scalar)
    THEN Raise(b, FdivKindError)
  ELSE
    Then(binary_op_type_checking_impl(input, other, b, FALSE, FALSE, FALSE, TRUE), LAMBDA r :
      fdiv_emit(r.val[1], r.val[2], ieee_rounding, r.b))

ModSignednessError(a_ty, b_ty) ==
  Exc("ValueError", "Cannot mod: different signedness", <<a_ty, b_ty>>, <<>>)

\* mod after the type checking (lines 217-232)
mod_dispatch(input, other, b) ==
  LET scalar_ty == input.type.scalar
      other_scalar_ty == other.type.scalar
  IN  IF is_floating(scalar_ty) THEN Binary(b, "frem", input, other, input.type)
      ELSE IF is_int(scalar_ty) THEN
        IF int_signedness(scalar_ty) # int_signedness(other_scalar_ty)
          THEN Raise(b, ModSignednessError(scalar_ty, other_scalar_ty))
        ELSE IF is_int_signed(scalar_ty)
          THEN Binary(b, "srem", input, other, input.type)
          ELSE Binary(b, "urem", input, other, input.type)
      ELSE Raise(b, AssertionError)

mod(input, other, b) ==
  Then(binary_op_type_checking_impl(input, other, b, FALSE, FALSE, TRUE, TRUE), LAMBDA r :
    mod_dispatch(r.val[1], r.val[2], r.b))

(***************************************************************************)
(* Memory operators.  An optional argument is <<>> when it is None and     *)
(* <<v>> when it is given; a hint string is "" when it is None.            *)
(***************************************************************************)
void == [name |-> "void", width |-> 0, signedness |-> "NONE", element |-> <<>>, address_space |-> 0]

\* a core.block, as opposed to the bare IR value a builder primitive returns
is_core_block(v) == "type" \in DOMAIN v

\* what reading .handle or .type.scalar of a bare IR value raises
AttributeError == Exc("AttributeError", "IR value is not a core.block", <<>>, <<>>)

CannotBroadcast == Exc("ValueError", "Cannot broadcast", <<>>, <<>>)

\* broadcast_impl_shape returns what create_splat / create_broadcast return:
\* a bare IR value, not wrapped in a core.block (lines 438 and 444)
broadcast_impl_shape(input, shape, b) ==
  IF ~is_core_block(input) THEN Raise(b, AttributeError)
  ELSE IF ~is_block(input.type)
    THEN Ok(Emit(b, "splat", <<input.handle>>, <<>>, shape, <<>>), <<InstHandle(Len(b) + 1)>>)
  ELSE IF Len(get_block_shapes(input.type)) # Len(shape) THEN Raise(b, CannotBroadcast)
  ELSE IF shape = get_block_shapes(input.type) THEN Ok(b, <<input>>)
  ELSE Ok(Emit(b, "broadcast", <<input.handle>>, <<>>, shape, <<>>), <<InstHandle(Len(b) + 1)>>)

\* an optional argument broadcast to the pointer's shape when do is true
broadcast_optional(do, opt, shape, b) ==
  IF do /\ opt # <<>> THEN broadcast_impl_shape(opt[1], shape, b) ELSE Ok(b, opt)

\* cast applied to whatever the caller holds: a bare IR value has no core type
cast_of(input, dst_sca, b) ==
  IF is_core_block(input) THEN cast(input, dst_sca, b) ELSE Raise(b, AttributeError)

\* treat bool* as int8* (lines 627-631 and 686-690)
bool_ptr_as_int8(ptr, b) ==
  IF element(ptr.type.scalar) = int1
    THEN cast(ptr, pointer_type(int8, ptr.type.scalar.address_space), b)
    ELSE Ok(b, <<ptr>>)

elt_ty_of(ptr) == IF element(ptr.type.scalar) = int1 THEN int8 ELSE element(ptr.type.scalar)

LoadPointerError(ty) == Exc("ValueError", "Pointer argument of load instruction", <<ty>>, <<>>)
CacheModifierError == Exc("ValueError", "Cache modifier not supported", <<>>, <<>>)
EvictionPolicyError == Exc("ValueError", "Eviction policy not supported", <<>>, <<>>)
OtherWithoutMask == Exc("ValueError", "other cannot be provided without mask", <<>>, <<>>)
NameError_other_it == Exc("NameError", "name 'other_it' is not defined", <<>>, <<>>)

\* the cache modifier and eviction policy the strings stand for (lines 634-651)
cache_of(cache_modifier) == IF cache_modifier = "" THEN "NONE" ELSE IF cache_modifier = ".ca" THEN "CA" ELSE "CG"
eviction_of(eviction_policy) == IF eviction_policy = "" THEN "NORMAL" ELSE IF eviction_policy = "evict_last" THEN "EVICT_LAST" ELSE "EVICT_FIRST"

\* load from the assert on (lines 653-672); ptr is the pointer after the
\* bool* cast, elt_ty the element kind loaded
load_emit(ptr, elt_ty, mask, other, hints, b) ==
  IF ~is_block(ptr.type) THEN Raise(b, AssertionError)
  ELSE IF mask = <<>> /\ other = <<>>
    THEN Ok(Emit(b, "load", <<ptr.handle>>, <<>>, <<>>, hints),
            <<block(InstHandle(Len(b) + 1), block_type(elt_ty, get_block_shapes(ptr.type)))>>)
  ELSE IF mask = <<>> THEN Raise(b, OtherWithoutMask)
  ELSE IF other = <<>>
    THEN Raise(Emit(b, "splat", <<ConstHandle("undef")>>, <<>>, get_block_shapes(ptr.type), <<>>),
               NameError_other_it)
  ELSE IF ~is_core_block(mask[1]) \/ ~is_core_block(other[1]) THEN Raise(b, AttributeError)
  ELSE Ok(Emit(b, "masked_load", <<ptr.handle, mask[1].handle, other[1].handle>>, <<>>, <<>>, hints),
          <<block(InstHandle(Len(b) + 1), block_type(elt_ty, get_block_shapes(ptr.type)))>>)

\* load from the hint strings on (lines 633-672)
load_hints(ptr, elt_ty, mask, other, cache_modifier, eviction_policy, is_volatile, b) ==
  IF cache_modifier \notin {"", ".ca", ".cg"} THEN Raise(b, CacheModifierError)
  ELSE IF eviction_policy \notin {"", "evict_last", "evict_first"} THEN Raise(b, EvictionPolicyError)
  ELSE load_emit(ptr, elt_ty, mask, other,
                 <<cache_of(cache_modifier), eviction_of(eviction_policy),
                   IF is_volatile THEN "volatile" ELSE "">>, b)

load(ptr, mask, other, cache_modifier, eviction_policy, is_volatile, b) ==
  IF ~is_ptr(ptr.type.scalar) THEN Raise(b, LoadPointerError(ptr.type))
  ELSE
    Then(broadcast_optional(is_block(ptr.type), mask, get_block_shapes(ptr.type), b), LAMBDA m :
      Then(broadcast_optional(is_block(ptr.type), other, get_block_shapes(ptr.type), m.b), LAMBDA o :
        Then(IF o.val # <<>> THEN cast_of(o.val[1], element(ptr.type.scalar), o.b) ELSE Ok(o.b, <<>>), LAMBDA c :
          Then(bool_ptr_as_int8(ptr, c.b), LAMBDA p :
            load_hints(p.val[1], elt_ty_of(ptr), m.val, c.val,
                       cache_modifier, eviction_policy, is_volatile, p.b)))))

StorePointerError(ty) == Exc("ValueError", "Pointer argument of store instruction", <<ty>>, <<>>)
MaskNotBoolean == Exc("ValueError", "Mask must have boolean scalar type", <<>>, <<>>)

\* store from the mask tests on (lines 694-698); core.block is given no type
store_emit(ptr, val, mask, b) ==
  IF mask = <<>>
    THEN Ok(Emit(b, "store", <<ptr.handle, val.handle>>, <<>>, <<>>, <<>>),
            <<block(InstHandle(Len(b) + 1), scalar_type(void))>>)
  ELSE IF ~is_core_block(mask[1]) THEN Raise(b, AttributeError)
  ELSE IF ~is_bool(mask[1].type.scalar) THEN Raise(b, MaskNotBoolean)
  ELSE Ok(Emit(b, "masked_store", <<ptr.handle, val.handle, mask[1].handle>>, <<>>, <<>>, <<>>),
          <<block(InstHandle(Len(b) + 1), scalar_type(void))>>)

store(ptr, val, mask, b) ==
  IF ~is_ptr(ptr.type.scalar) THEN Raise(b, StorePointerError(ptr.type))
  ELSE
    Then(broadcast_optional(is_block(ptr.type), <<val>>, get_block_shapes(ptr.type), b), LAMBDA v :
      Then(broadcast_optional(TRUE, mask, get_block_shapes(ptr.type), v.b), LAMBDA m :
        Then(bool_ptr_as_int8(ptr, m.b), LAMBDA p :
          Then(cast_of(v.val[1], elt_ty_of(ptr), p.b), LAMBDA c :
            store_emit(p.val[1], c.val[1], m.val, c.b)))))

(***************************************************************************)
(* Comparisons, bitwise and, bitcast and where, as the atomics use them.   *)
(***************************************************************************)
\* a builder primitive whose result is returned bare, not as a core.block
BinaryBare(b, op, input, other) ==
  Ok(Emit(b, op, <<input.handle, other.handle>>, <<>>, <<>>, <<>>), <<InstHandle(Len(b) + 1)>>)

\* binary_op_type_checking_impl on whatever the caller holds
type_checking_of(lhs, rhs, b, allow_lhs_ptr, allow_rhs_ptr, arithmetic_check, div_or_mod) ==
  IF ~is_core_block(lhs) \/ ~is_core_block(rhs) THEN Raise(b, AttributeError)
  ELSE binary_op_type_checking_impl(lhs, rhs, b, allow_lhs_ptr, allow_rhs_ptr, arithmetic_check, div_or_mod)

\* greater_equal after the type checking (lines 333-343)
greater_equal_dispatch(input, other, b) ==
  IF is_floating(input.type.scalar) THEN BinaryBare(b, "fcmpOGE", input, other)
  ELSE IF is_int(input.type.scalar)
    THEN BinaryBare(b, IF is_int_signed(input.type.scalar) THEN "icmpSGE" ELSE "icmpUGE", input, other)
  ELSE Raise(b, AssertionError)

greater_equal(input, other, b) ==
  Then(type_checking_of(input, other, b, FALSE, FALSE, TRUE, FALSE), LAMBDA r :
    greater_equal_dispatch(r.val[1], r.val[2], r.b))

\* less_than after the type checking (lines 349-359); the result keeps the
\* operands' type
less_than_dispatch(input, other, b) ==
  IF is_floating(input.type.scalar) THEN Binary(b, "fcmpOLT", input, other, input.type)
  ELSE IF is_int(input.type.scalar)
    THEN Binary(b, IF is_int_signed(input.type.scalar) THEN "icmpSLT" ELSE "icmpULT",
                input, other, input.type)
  ELSE Raise(b, AssertionError)

less_than(input, other, b) ==
  Then(type_checking_of(input, other, b, FALSE, FALSE, TRUE, FALSE), LAMBDA r :
    less_than_dispatch(r.val[1], r.val[2], r.b))

\* bitwise_op_type_checking_impl after the binary type checking (lines 241-250)
bitwise_promote(input, other, b) ==
  IF ~is_int(input.type.scalar) \/ ~is_int(other.type.scalar)
    THEN Raise(b, IncompatibleTypeErrorimpl(input.type.scalar, other.type.scalar))
  ELSE
    Then(At(b, integer_promote_impl(input.type.scalar, other.type.scalar)), LAMBDA p :
      Then(cast(input, p.ty[1], b), LAMBDA c1 :
        Then(cast(other, p.ty[1], c1.b), LAMBDA c2 :
          Ok(c2.b, <<c1.val[1], c2.val[1]>>))))

bitwise_op_type_checking_impl(input, other, b) ==
  Then(type_checking_of(input, other, b, FALSE, FALSE, FALSE, FALSE), LAMBDA r :
    bitwise_promote(r.val[1], r.val[2], r.b))

and_(input, other, b) ==
  Then(bitwise_op_type_checking_impl(input, other, b), LAMBDA r :
    Binary(r.b, "and", r.val[1], r.val[2], r.val[1].type))

primitive_bitwidth(t) == t.width

BitcastSizeError(src_bits, dst_bits) ==
  Exc("ValueError", "Cannot bitcast data-type of size", <<>>, <<src_bits, dst_bits>>)

\* bitcast (lines 491-510).  With a pointer on either side it calls cast with
\* the destination it has already made a block type (line 502); cast wraps a
\* block type once more and none of its rules knows the result, so the call
\* ends at cast's assert.  A scalar destination goes through cast as it is.
bitcast(input, dst_sca, b) ==
  IF input.type = cast_dst_ty(input.type, dst_sca) THEN Ok(b, <<input>>)
  ELSE IF is_ptr(input.type.scalar) \/ is_ptr(dst_sca)
    THEN (IF is_block(input.type) THEN Raise(b, AssertionError) ELSE cast(input, dst_sca, b))
  ELSE IF primitive_bitwidth(input.type.scalar) # primitive_bitwidth(dst_sca)
    THEN Raise(b, BitcastSizeError(primitive_bitwidth(input.type.scalar), primitive_bitwidth(dst_sca)))
  ELSE Convert(b, "bitcast", input, cast_dst_ty(input.type, dst_sca), <<>>)

\* where after the condition cast (lines 867-876)
where_select(condition, x, y, b) ==
  Then(broadcast_optional(is_block(condition.type), <<x>>, get_block_shapes(condition.type), b), LAMBDA bx :
    Then(broadcast_optional(is_block(condition.type), <<y>>, get_block_shapes(condition.type), bx.b), LAMBDA by :
      IF ~is_core_block(bx.val[1]) \/ ~is_core_block(by.val[1]) THEN Raise(by.b, AttributeError)
      ELSE
        Then(At(by.b, computation_type_impl(bx.val[1].type.scalar, by.val[1].type.scalar, FALSE)), LAMBDA ty :
          Then(cast(bx.val[1], ty.ty[1], by.b), LAMBDA cx :
            Then(cast(by.val[1], ty.ty[1], cx.b), LAMBDA cy :
              Ok(Emit(cy.b, "select", <<condition.handle, cx.val[1].handle, cy.val[1].handle>>, <<>>, <<>>, <<>>),
                 <<block(InstHandle(Len(cy.b) + 1), scalar_type(ty.ty[1]))>>))))))

where(condition, x, y, b) ==
  Then(cast_of(condition, int1, b), LAMBDA c : where_select(c.val[1], x, y, c.b))

(***************************************************************************)
(* Atomics.                                                                *)
(***************************************************************************)
\* the mask made when none is given (lines 722-726); core.block gets no type
default_mask(ptr, b) ==
  IF is_block(ptr.type)
    THEN Ok(Emit(b, "splat", <<ConstHandle("int1_true")>>, <<>>, get_block_shapes(ptr.type), <<>>),
            <<block(InstHandle(Len(b) + 1), scalar_type(void))>>)
    ELSE Ok(b, <<block(ConstHandle("int1_true"), scalar_type(void))>>)

\* returns <<ptr, val, mask>>
atom_red_typechecking_impl(ptr, val, mask, b) ==
  IF ~is_ptr(ptr.type.scalar) THEN Raise(b, StorePointerError(ptr.type))
  ELSE
    Then(broadcast_optional(is_block(ptr.type), mask, get_block_shapes(ptr.type), b), LAMBDA m :
      Then(broadcast_optional(is_block(ptr.type), <<val>>, get_block_shapes(ptr.type), m.b), LAMBDA v :
        Then(cast_of(v.val[1], element(ptr.type.scalar), v.b), LAMBDA c :
          Then(IF m.val = <<>> THEN default_mask(ptr, c.b) ELSE Ok(c.b, m.val), LAMBDA k :
            Ok(k.b, <<ptr, c.val[1], k.val[1]>>)))))

\* create_atomic_rmw under the mask whose handle is mask_handle
atomic_rmw(b, op, ptr, val, mask_handle, ty) ==
  Ok(Emit(b, "atomic_rmw", <<ptr.handle, val.handle, mask_handle>>, <<>>, <<>>, <<op>>),
     <<block(InstHandle(Len(b) + 1), ty)>>)

\* the direct call for integers; it reads mask.handle
atomic_rmw_int(b, op, ptr, val, mask) ==
  IF ~is_core_block(mask) THEN Raise(b, AttributeError)
  ELSE atomic_rmw(b, op, ptr, val, mask.handle, val.type)

float_zero(sca_ty) == block(ConstHandle("float_0"), scalar_type(sca_ty))

\* the two read-modify-writes of a float atomic and the select between them
\* (lines 757-759); pos_op runs under mask & pos, neg_op under mask & neg
atomic_split(i_ptr, i_val, mask, pos, neg, pos_op, neg_op, b) ==
  Then(and_(mask, pos, b), LAMBDA mp :
    Then(atomic_rmw(mp.b, pos_op, i_ptr, i_val, mp.val[1].handle, i_val.type), LAMBDA pos_ret :
      Then(and_(mask, neg, pos_ret.b), LAMBDA mn :
        Then(atomic_rmw(mn.b, neg_op, i_ptr, i_val, mn.val[1].handle, i_val.type), LAMBDA neg_ret :
          where(pos, pos_ret.val[1].handle, neg_ret.val[1].handle, neg_ret.b)))))

\* atomic_max for float (lines 753-759)
atomic_max_float(ptr, val, mask, b) ==
  Then(bitcast(val, int32, b), LAMBDA i_val :
    Then(bitcast(ptr, pointer_type(int32, 1), i_val.b), LAMBDA i_ptr :
      Then(greater_equal(val, float_zero(val.type.scalar), i_ptr.b), LAMBDA pos :
        Then(less_than(val, float_zero(val.type.scalar), pos.b), LAMBDA neg :
          atomic_split(i_ptr.val[1], i_val.val[1], mask, pos.val[1], neg.val[1], "MAX", "UMIN", neg.b)))))

\* atomic_max after the type checking (lines 735-759)
atomic_max_dispatch(ptr, val, mask, b) ==
  IF is_int(val.type.scalar)
    THEN atomic_rmw_int(b, IF is_int_signed(val.type.scalar) THEN "MAX" ELSE "UMAX", ptr, val, mask)
    ELSE atomic_max_float(ptr, val, mask, b)

atomic_max(ptr, val, mask, b) ==
  Then(atom_red_typechecking_impl(ptr, val, mask, b), LAMBDA r :
    atomic_max_dispatch(r.val[1], r.val[2], r.val[3], r.b))

\* atomic_min after the type checking (lines 766-798).  For float, line 784
\* hands bitcast the IR type builder.get_int32_ty() where a core.dtype is
\* taken; an IR type has no to_ir, so the call ends there.
atomic_min_dispatch(ptr, val, mask, b) ==
  IF is_int(val.type.scalar)
    THEN atomic_rmw_int(b, IF is_int_signed(val.type.scalar) THEN "MIN" ELSE "UMIN", ptr, val, mask)
    ELSE Raise(b, AttributeError)

atomic_min(ptr, val, mask, b) ==
  Then(atom_red_typechecking_impl(ptr, val, mask, b), LAMBDA r :
    atomic_min_dispatch(r.val[1], r.val[2], r.val[3], r.b))

(***************************************************************************)
(* Reductions.                                                             *)
(***************************************************************************)
\* create_reduce: the result is returned bare; the axis is kept as shape
create_reduce(b, input, op, axis) ==
  Ok(Emit(b, "reduce", <<input.handle>>, <<>>, <<axis>>, <<op>>), <<InstHandle(Len(b) + 1)>>)

\* reduce_impl after the widening (lines 891-895); scalar_ty was read before it
reduce_dispatch(input, scalar_ty, axis, b, FLOAT_OP, INT_OP) ==
  IF is_floating(scalar_ty) THEN create_reduce(b, input, FLOAT_OP, axis)
  ELSE IF is_int(scalar_ty) THEN create_reduce(b, input, INT_OP, axis)
  ELSE Raise(b, AssertionError)

reduce_impl(input, axis, b, name, FLOAT_OP, INT_OP) ==
  Then(IF is_int(input.type.scalar) /\ int_bitwidth(input.type.scalar) <= 32
         THEN cast(input, int32, b) ELSE Ok(b, <<input>>), LAMBDA c :
    reduce_dispatch(c.val[1], input.type.scalar, axis, c.b, FLOAT_OP, INT_OP))

min(input, axis, b) == reduce_impl(input, axis, b, "min", "FMIN", "MIN")
max(input, axis, b) == reduce_impl(input, axis, b, "max", "FMAX", "MAX")
sum(input, axis, b) == reduce_impl(input, axis, b, "sum", "FADD", "ADD")

XorSumError == Exc("ValueError", "xor_sum only supported for integers", <<>>, <<>>)

xor_sum(input, axis, b) ==
  IF ~is_int(input.type.scalar) THEN Raise(b, XorSumError)
  ELSE reduce_impl(input, axis, b, "sum", "XOR", "XOR")

(***************************************************************************)
(* The lowering session: one call on a fresh builder, then a new session.  *)
(***************************************************************************)
VARIABLES pc, call, builder, ret

vars == <<pc, call, builder, ret>>

\* The operands the calls are tried on.
Dims == 1..MaxDim
Shapes == UNION {[1..n -> Dims] : n \in 0..MaxRank}
FlatShapes == {s \in Shapes : Len(s) <= 1}

IntegerKinds == {int_ty(w, sn) : w \in {8, 16, 32, 64}, sn \in {"SIGNED", "UNSIGNED"}}
FloatingKinds == {float16, bfloat16, float32, float64}
PointeeKinds == {float32, int32, int1}
PointerKinds == {pointer_type(e, 1) : e \in PointeeKinds}
ScalarKinds == IntegerKinds \cup {int1} \cup FloatingKinds \cup PointerKinds
ProbeKinds == {int32, uint32, float32, pointer_type(float32, 1)}

Operand(i, k, s) == block(ArgHandle(i), block_type(k, s))

\* every pair of kinds over the shapes of rank <= 1, and every pair of
\* shapes over the probe kinds
OperandPairs ==
  {<<Operand(1, k1, s1), Operand(2, k2, s2)>> :
      k1 \in ScalarKinds, k2 \in ScalarKinds, s1 \in FlatShapes, s2 \in FlatShapes}
  \cup
  {<<Operand(1, k1, s1), Operand(2, k2, s2)>> :
      k1 \in ProbeKinds, k2 \in ProbeKinds, s1 \in Shapes, s2 \in Shapes}

Operands == {Operand(1, k, s) : k \in ScalarKinds, s \in Shapes}

\* the optional and keyword arguments of a call when none is given
NoKw == [mask |-> <<>>, other |-> <<>>, cache_modifier |-> "", eviction_policy |-> "", is_volatile |-> FALSE, axis |-> <<>>]

NoCall == [fn |-> "", args |-> <<>>, tys |-> <<>>, flag |-> FALSE, kw |-> NoKw]
NoRet == [err |-> <<>>, val |-> <<>>, ty |-> <<>>, shape |-> <<>>]

\* What the caller hands to one lowering call: operand Values, dtypes, a flag.
Arguments(args, tys, flag) == [fn |-> "", args |-> args, tys |-> tys, flag |-> flag, kw |-> NoKw]

\* The operands the memory operators are tried on.
MemShapes == {<<>>, <<1>>, <<2>>, <<1, 2>>}
Pointers == {Operand(1, k, s) : k \in PointerKinds \cup {int32}, s \in MemShapes}
Masks == {<<>>} \cup {<<Operand(3, k, s)>> : k \in {int1, int32}, s \in MemShapes}
Others == {<<>>} \cup {<<Operand(2, int32, s)>> : s \in {<<>>, <<2>>}}
StoredValues == {Operand(2, k, s) : k \in {int32, float32}, s \in MemShapes}
CacheModifiers == {"", ".ca", ".cg", ".cv"}
EvictionPolicies == {"", "evict_last", "evict_first", "evict_normal"}

LoadArguments(ptr, mask, other, cache_modifier, eviction_policy, is_volatile) ==
  [fn |-> "", args |-> <<ptr>>, tys |-> <<>>, flag |-> FALSE,
   kw |-> [mask |-> mask, other |-> other, cache_modifier |-> cache_modifier,
           eviction_policy |-> eviction_policy, is_volatile |-> is_volatile, axis |-> <<>>]]

\* The blocks the reductions are tried on, each with an axis of its own.
Reducibles == {Operand(1, k, s) : k \in ScalarKinds, s \in {t \in Shapes : Len(t) > 0 /\ \A i \in 1..Len(t) : t[i] <= 2}}

ReduceArguments(input, axis) ==
  [fn |-> "", args |-> <<input>>, tys |-> <<>>, flag |-> FALSE, kw |-> [NoKw EXCEPT !.axis = <<axis>>]]

StoreArguments(ptr, val, mask) ==
  [fn |-> "", args |-> <<ptr, val>>, tys |-> <<>>, flag |-> FALSE, kw |-> [NoKw EXCEPT !.mask = mask]]

Inputs ==
  {Arguments(p, <<>>, FALSE) : p \in OperandPairs}
  \cup {Arguments(<<x>>, <<dst_ty>>, FALSE) : x \in Operands, dst_ty \in ScalarKinds}
  \cup {Arguments(<<>>, <<a, b>>, div_or_mod) :
          a \in ScalarKinds, b \in ScalarKinds, div_or_mod \in BOOLEAN}
  \cup {LoadArguments(ptr, mask, other, c, e, v) :
          ptr \in Pointers, mask \in Masks, other \in Others,
          c \in CacheModifiers, e \in EvictionPolicies, v \in BOOLEAN}
  \cup {ReduceArguments(x, axis) : x \in {y \in Reducibles : Len(y.type.shape) = MaxRank}, axis \in 0..(MaxRank - 1)}
  \cup {StoreArguments(ptr, val, mask) :
          ptr \in Pointers, val \in StoredValues, mask \in Masks \ {<<>>}}

Init ==
  /\ pc = "idle"
  /\ call = NoCall
  /\ builder = <<>>
  /\ ret = NoRet

\* the caller supplies the already-typed operands of the next call
Receive ==
  /\ pc = "idle"
  /\ \E in \in Inputs : call' = in
  /\ pc' = "ready"
  /\ UNCHANGED <<builder, ret>>

\* the entry point fn runs to its end with outcome r
Invoke(fn, r) ==
  /\ pc' = "done"
  /\ call' = [call EXCEPT !.fn = fn]
  /\ builder' = r.b
  /\ ret' = [err |-> r.err, val |-> r.val, ty |-> r.ty, shape |-> r.shape]

HasOperands(n, m) == pc = "ready" /\ Len(call.args) = n /\ Len(call.tys) = m /\ call.kw = NoKw

HasKeywords(n) == pc = "ready" /\ Len(call.args) = n /\ Len(call.tys) = 0

Call_integer_promote_impl ==
  /\ HasOperands(0, 2)
  /\ ~call.flag
  /\ is_int(call.tys[1])
  /\ is_int(call.tys[2])
  /\ Invoke("integer_promote_impl", integer_promote_impl(call.tys[1], call.tys[2]))

Call_computation_type_impl ==
  /\ HasOperands(0, 2)
  /\ Invoke("computation_type_impl",
            computation_type_impl(call.tys[1], call.tys[2], call.flag))

Call_broadcast_impl_value ==
  /\ HasOperands(2, 0)
  /\ Invoke("broadcast_impl_value", broadcast_impl_value(call.args[1], call.args[2], builder))

Call_cast ==
  /\ HasOperands(1, 1)
  /\ Invoke("cast", cast(call.args[1], call.tys[1], builder))

\* the caller casts the Value it got from cast back to the operand's kind
Call_cast_back ==
  /\ pc = "done"
  /\ call.fn = "cast"
  /\ ret.err = <<>>
  /\ Invoke("cast_back", cast(ret.val[1], call.args[1].type.scalar, builder))

Call_add ==
  /\ HasOperands(2, 0)
  /\ Invoke("add", add(call.args[1], call.args[2], builder))

Call_sub ==
  /\ HasOperands(2, 0)
  /\ Invoke("sub", sub(call.args[1], call.args[2], builder))

Call_mul ==
  /\ HasOperands(2, 0)
  /\ Invoke("mul", mul(call.args[1], call.args[2], builder))

Call_truediv ==
  /\ HasOperands(2, 0)
  /\ Invoke("truediv", truediv(call.args[1], call.args[2], builder))

Call_floordiv ==
  /\ HasOperands(2, 0)
  /\ Invoke("floordiv", floordiv(call.args[1], call.args[2], builder))

Call_mod ==
  /\ HasOperands(2, 0)
  /\ Invoke("mod", mod(call.args[1], call.args[2], builder))

Call_fdiv ==
  /\ HasOperands(2, 0)
  /\ Invoke("fdiv", fdiv(call.args[1], call.args[2], call.flag, builder))

Call_and_ ==
  /\ HasOperands(2, 0)
  /\ Invoke("and_", and_(call.args[1], call.args[2], builder))

Call_greater_equal ==
  /\ HasOperands(2, 0)
  /\ Invoke("greater_equal", greater_equal(call.args[1], call.args[2], builder))

Call_load ==
  /\ HasKeywords(1)
  /\ call.kw.axis = <<>>
  /\ Invoke("load", load(call.args[1], call.kw.mask, call.kw.other, call.kw.cache_modifier,
                         call.kw.eviction_policy, call.kw.is_volatile, builder))

Call_store ==
  /\ HasKeywords(2)
  /\ Invoke("store", store(call.args[1], call.args[2], call.kw.mask, builder))

HasAxis == HasKeywords(1) /\ call.kw.axis # <<>>

Call_min ==
  /\ HasAxis
  /\ Invoke("min", min(call.args[1], call.kw.axis[1], builder))

Call_max ==
  /\ HasAxis
  /\ Invoke("max", max(call.args[1], call.kw.axis[1], builder))

Call_sum ==
  /\ HasAxis
  /\ Invoke("sum", sum(call.args[1], call.kw.axis[1], builder))

Call_xor_sum ==
  /\ HasAxis
  /\ Invoke("xor_sum", xor_sum(call.args[1], call.kw.axis[1], builder))

Call_atomic_max ==
  /\ HasKeywords(2)
  /\ Invoke("atomic_max", atomic_max(call.args[1], call.args[2], call.kw.mask, builder))

Call_atomic_min ==
  /\ HasKeywords(2)
  /\ Invoke("atomic_min", atomic_min(call.args[1], call.args[2], call.kw.mask, builder))

\* the next lowering session owns a builder of its own
NewSession ==
  /\ pc = "done"
  /\ pc' = "idle"
  /\ call' = NoCall
  /\ builder' = <<>>
  /\ ret' = NoRet

Next ==
  \/ Receive
  \/ Call_integer_promote_impl
  \/ Call_computation_type_impl
  \/ Call_broadcast_impl_value
  \/ Call_cast
  \/ Call_cast_back
  \/ Call_add
  \/ Call_sub
  \/ Call_mul
  \/ Call_truediv
  \/ Call_floordiv
  \/ Call_mod
  \/ Call_fdiv
  \/ Call_and_
  \/ Call_greater_equal
  \/ Call_load
  \/ Call_store
  \/ Call_atomic_max
  \/ Call_atomic_min
  \/ Call_min
  \/ Call_max
  \/ Call_sum
  \/ Call_xor_sum
  \/ NewSession

Spec == Init /\ [][Next]_vars

TypeOK ==
  /\ pc \in {"idle", "ready", "done"}
  /\ Len(ret.err) <= 1
  /\ (pc # "done" => builder = <<>> /\ ret = NoRet)

(***************************************************************************)
(* Properties.                                                             *)
(***************************************************************************)
Called(fn) == pc = "done" /\ call.fn = fn
Succeeded == ret.err = <<>>
Raised(class) == ret.err # <<>> /\ ret.err[1].class = class

Lhs == call.args[1]
Rhs == call.args[2]
LhsKind == call.args[1].type.scalar
RhsKind == call.args[2].type.scalar
LhsShape == call.args[1].type.shape
RhsShape == call.args[2].type.shape

\* the two operand shapes broadcast against each other
Broadcastable ==
  \/ LhsShape = <<>>
  \/ RhsShape = <<>>
  \/ /\ Len(LhsShape) = Len(RhsShape)
     /\ \A i \in 1..Len(LhsShape) :
          LhsShape[i] = 1 \/ RhsShape[i] = 1 \/ LhsShape[i] = RhsShape[i]

OpsEmitted == {builder[i].op : i \in 1..Len(builder)}
CountOp(op) == Cardinality({i \in 1..Len(builder) : builder[i].op = op})

\* handle h is the result of a conversion to kind k that is in the builder
IsCastTo(h, k) ==
  /\ h.src = "inst"
  /\ h.id \in 1..Len(builder)
  /\ builder[h.id].op \in {"si_to_fp", "ui_to_fp", "int_cast", "fp_ext", "fp_trunc",
                           "fp_to_si", "fp_to_ui"}
  /\ builder[h.id].ty # <<>>
  /\ builder[h.id].ty[1].scalar = k

\* the call ended by emitting instruction op on two conversions to kind k
EndsWithOpOnCasts(op, k) ==
  /\ Len(builder) >= 3
  /\ builder[Len(builder)].op = op
  /\ \A j \in 1..2 :
       /\ IsCastTo(builder[Len(builder)].args[j], k)
       /\ builder[Len(builder)].args[j].id < Len(builder)

TruedivToFloat32 ==
  /\ Succeeded
  /\ ret.val[1].type.scalar = float32
  /\ CountOp("fdiv") = 1
  /\ EndsWithOpOnCasts("fdiv", float32)

\* C1 as stated: true-divide of two integer operands of any two integer kinds,
\* of equal or of different signedness, succeeds with result kind Float32 and
\* divides two operands that were cast to Float32.
C1_TruedivAnyIntegers ==
  (Called("truediv") /\ LhsKind \in IntegerKinds /\ RhsKind \in IntegerKinds /\ Broadcastable)
    => TruedivToFloat32

\* C1 amended: true-divide of two integer operands of equal signedness
\* succeeds with result kind Float32 and divides two operands that were
\* cast to Float32.
C1_TruedivSameSignedness ==
  (/\ Called("truediv")
   /\ LhsKind \in IntegerKinds
   /\ RhsKind \in IntegerKinds
   /\ int_signedness(LhsKind) = int_signedness(RhsKind)
   /\ Broadcastable)
    => TruedivToFloat32

C1_Witness ==
  /\ Called("truediv")
  /\ LhsKind = uint8
  /\ RhsKind = uint16
  /\ LhsShape = <<2>>
  /\ RhsShape = <<2>>
  /\ TruedivToFloat32

\* the same outcome: the same kind returned, or both raise
SameOutcome(r1, r2) == r1.ty = r2.ty /\ (r1.err = <<>>) = (r2.err = <<>>)

\* C2: computation_type(a, b, m) and computation_type(b, a, m) have the
\* same outcome for every pair of scalar kinds and both values of div_or_mod.
C2_ComputationTypeCommutes ==
  Called("computation_type_impl")
    => SameOutcome(ret, computation_type_impl(call.tys[2], call.tys[1], call.flag))

C2_Witness ==
  /\ Called("computation_type_impl")
  /\ call.tys = <<int8, uint8>>
  /\ ~call.flag
  /\ ret.ty = <<uint8>>

\* the promotion rule of the specification
Promoted(a, b) ==
  IF a.signedness = b.signedness
    THEN (IF a.width >= b.width THEN a ELSE b)
    ELSE LET u == IF a.signedness = "UNSIGNED" THEN a ELSE b
             sg == IF a.signedness = "UNSIGNED" THEN b ELSE a
         IN  IF u.width >= sg.width THEN u ELSE sg

\* C3: integer_promote returns, for every pair of integer kinds of width 8 to
\* 64, the wider kind under equal signedness and, under mixed signedness, the
\* unsigned kind iff it is at least as wide as the signed one; the result is
\* one of the two operands.
C3_IntegerPromote ==
  (Called("integer_promote_impl") /\ call.tys[1] \in IntegerKinds /\ call.tys[2] \in IntegerKinds)
    => /\ Succeeded
       /\ ret.ty = <<Promoted(call.tys[1], call.tys[2])>>
       /\ ret.ty[1] \in {call.tys[1], call.tys[2]}
       /\ (call.tys = <<int8, uint8>> => ret.ty = <<uint8>>)
       /\ (call.tys = <<int32, uint8>> => ret.ty = <<int32>>)
       /\ (call.tys = <<uint32, int8>> => ret.ty = <<uint32>>)

C3_Witness ==
  /\ Called("integer_promote_impl")
  /\ call.tys = <<int32, uint8>>
  /\ ret.ty = <<int32>>

\* handle h is operand x itself, or its splat or broadcast
DerivedFrom(h, x) ==
  \/ h = x.handle
  \/ /\ h.src = "inst"
     /\ h.id \in 1..Len(builder)
     /\ builder[h.id].op \in {"splat", "broadcast"}
     /\ builder[h.id].args[1] = x.handle

\* handle h is operand x, possibly broadcast, possibly converted to kind k
OperandAs(h, x, k) ==
  \/ (x.type.scalar = k /\ DerivedFrom(h, x))
  \/ (IsCastTo(h, k) /\ DerivedFrom(builder[h.id].args[1], x))

\* C4: remainder of two integer operands of different signedness fails with
\* the signedness error; of equal signedness it succeeds, both operands are
\* brought to the integer-promoted kind and the signed or unsigned remainder
\* op is emitted by that kind's signedness.
C4_ModIntegers ==
  (Called("mod") /\ LhsKind \in IntegerKinds /\ RhsKind \in IntegerKinds /\ Broadcastable)
    => IF int_signedness(LhsKind) # int_signedness(RhsKind)
         THEN /\ Raised("ValueError")
              /\ ret.err[1].msg = "different signedness"
              /\ OpsEmitted \cap {"srem", "urem"} = {}
         ELSE /\ Succeeded
              /\ ret.val[1].type.scalar = Promoted(LhsKind, RhsKind)
              /\ builder[Len(builder)].op =
                   (IF is_int_signed(Promoted(LhsKind, RhsKind)) THEN "srem" ELSE "urem")
              /\ OperandAs(builder[Len(builder)].args[1], Lhs, Promoted(LhsKind, RhsKind))
              /\ OperandAs(builder[Len(builder)].args[2], Rhs, Promoted(LhsKind, RhsKind))

PointerAndOffset ==
  \/ (is_ptr(LhsKind) /\ RhsKind \in IntegerKinds)
  \/ (is_ptr(RhsKind) /\ LhsKind \in IntegerKinds)

PointerOperand == IF is_ptr(LhsKind) THEN Lhs ELSE Rhs
OffsetOperand == IF is_ptr(LhsKind) THEN Rhs ELSE Lhs

\* C5: add of a pointer and an integer offset succeeds in either operand
\* order, with exactly one gep whose base is the pointer, no integer add, and
\* the pointer's kind as the result kind.
C5_AddPointerOffset ==
  (Called("add") /\ PointerAndOffset /\ Broadcastable)
    => /\ Succeeded
       /\ CountOp("gep") = 1
       /\ CountOp("add") = 0
       /\ builder[Len(builder)].op = "gep"
       /\ DerivedFrom(builder[Len(builder)].args[1], PointerOperand)
       /\ DerivedFrom(builder[Len(builder)].args[2], OffsetOperand)
       /\ ret.val[1].type.scalar = PointerOperand.type.scalar

BinaryOperators == {"add", "sub", "mul", "truediv", "floordiv", "mod"}

\* C6: in every binary operator a pointer/pointer or pointer/float operand
\* pair fails with IncompatibleTypeError carrying both operand types, and no
\* arithmetic op is emitted.
C6_PointerPairsRejected ==
  (/\ pc = "done"
   /\ call.fn \in BinaryOperators
   /\ Broadcastable
   /\ \/ (is_ptr(LhsKind) /\ (is_ptr(RhsKind) \/ is_floating(RhsKind)))
      \/ (is_ptr(RhsKind) /\ is_floating(LhsKind)))
    => /\ Raised("IncompatibleTypeError")
       /\ ret.err[1].types \in {<<LhsKind, RhsKind>>, <<RhsKind, LhsKind>>}
       /\ OpsEmitted \subseteq {"splat", "broadcast"}

\* handle h is the negation 0 - x of operand x
IsNegated(h, x) ==
  /\ h.src = "inst"
  /\ h.id \in 1..Len(builder)
  /\ builder[h.id].op = "sub"
  /\ DerivedFrom(builder[h.id].args[1], block(ConstHandle("null"), scalar_type(x.type.scalar)))
  /\ DerivedFrom(builder[h.id].args[2], x)

\* C7: sub(pointer, integer offset) succeeds with a gep on the pointer and
\* the negated offset and the pointer's kind as result kind; sub(offset,
\* pointer) fails.
C7_SubPointerLeftOnly ==
  /\ (Called("sub") /\ is_ptr(LhsKind) /\ RhsKind \in IntegerKinds /\ Broadcastable)
       => /\ Succeeded
          /\ builder[Len(builder)].op = "gep"
          /\ DerivedFrom(builder[Len(builder)].args[1], Lhs)
          /\ IsNegated(builder[Len(builder)].args[2], Rhs)
          /\ ret.val[1].type.scalar = LhsKind
  /\ (Called("sub") /\ LhsKind \in IntegerKinds /\ is_ptr(RhsKind) /\ Broadcastable)
       => ~Succeeded

\* the least axis (1-based) on which the shapes l and r disagree, 0 if none
RECURSIVE FirstClash(_, _, _)
FirstClash(l, r, i) ==
  IF i > Len(l) THEN 0
  ELSE IF l[i] # 1 /\ r[i] # 1 /\ l[i] # r[i] THEN i
  ELSE FirstClash(l, r, i + 1)

Resolved(l, r) == [i \in 1..Len(l) |-> IF l[i] = 1 THEN r[i] ELSE l[i]]

\* C8: for two block operands, unequal rank fails; equal rank resolves each
\* axis to the other side's size when one side is 1 and to the common size
\* when both agree, and otherwise fails naming the axis and both sizes; the
\* resolved shape is the same for (a, b) and (b, a).
C8_ShapeResolution ==
  (Called("broadcast_impl_value") /\ LhsShape # <<>> /\ RhsShape # <<>>)
    => LET k == FirstClash(LhsShape, RhsShape, 1)
           swapped == make_shape_compatible(RhsShape, LhsShape)
       IN  IF Len(LhsShape) # Len(RhsShape)
             THEN ~Succeeded /\ Failed(swapped)
           ELSE IF k # 0
             THEN /\ ~Succeeded
                  /\ ret.err[1].nums = <<k - 1, LhsShape[k], RhsShape[k]>>
                  /\ Failed(swapped)
           ELSE /\ Succeeded
                /\ ret.val[1].type.shape = Resolved(LhsShape, RhsShape)
                /\ ret.val[2].type.shape = Resolved(LhsShape, RhsShape)
                /\ swapped.shape = <<Resolved(LhsShape, RhsShape)>>
                /\ (LhsShape = <<1, 3>> /\ RhsShape = <<2, 1>>
                      => ret.val[1].type.shape = <<2, 3>>)

C8_Witness ==
  /\ Called("broadcast_impl_value")
  /\ LhsShape = <<1, 3>>
  /\ RhsShape = <<2, 1>>
  /\ Succeeded
  /\ ret.val[1].type.shape = <<2, 3>>
  /\ ret.val[2].type.shape = <<2, 3>>

\* C9: cast of a value to its own scalar kind returns the same Value and
\* appends no instruction, for every kind and every shape.
C9_CastIdentity ==
  (Called("cast") /\ call.tys[1] = LhsKind)
    => /\ Succeeded
       /\ ret.val = <<Lhs>>
       /\ builder = <<>>

C9_Witness ==
  /\ Called("cast")
  /\ call.tys[1] = LhsKind
  /\ LhsKind = uint16
  /\ LhsShape = <<2, 3>>
  /\ ret.val = <<Lhs>>
  /\ builder = <<>>

ArithmeticKinds == IntegerKinds \cup {int1} \cup FloatingKinds

\* C10: a cast with BFloat16 on one side and neither Float32 nor BFloat16 on
\* the other succeeds in two steps, first to Float32 and then to the target
\* kind, and yields a value of the target kind.
C10_BFloat16ViaFloat32 ==
  (/\ Called("cast")
   /\ LhsKind \in ArithmeticKinds
   /\ call.tys[1] \in ArithmeticKinds
   /\ LhsKind # call.tys[1]
   /\ \/ (is_bf16(LhsKind) /\ ~is_fp32(call.tys[1]))
      \/ (is_bf16(call.tys[1]) /\ ~is_fp32(LhsKind)))
    => /\ Succeeded
       /\ ret.val[1].type.scalar = call.tys[1]
       /\ Len(builder) = 2
       /\ builder[1].ty[1].scalar = float32
       /\ builder[2].ty[1].scalar = call.tys[1]

\* the bit patterns of width w tried: low bit l, top bit t, the rest f
Patterns(w) == {[i \in 1..w |-> IF i = 1 THEN l ELSE IF i = w THEN t ELSE f] : l \in {0, 1}, t \in {0, 1}, f \in {0, 1}}

IntAndBoolKinds == IntegerKinds \cup {int1}

Diagnosed == ret.err # <<>> /\ ret.err[1].class \in {"TypeError", "ValueError", "IncompatibleTypeError"}

\* C12: cast from a pointer kind to an integer kind of width 64 emits one
\* pointer-to-int op, to width 1 compares the 64-bit reinterpretation against
\* zero, and to width 8, 16 or 32 fails with a type diagnostic.
C12_PointerToInt ==
  (Called("cast") /\ is_ptr(LhsKind) /\ call.tys[1] \in IntAndBoolKinds)
    => IF int_bitwidth(call.tys[1]) = 64
         THEN Succeeded /\ Len(builder) = 1 /\ builder[1].op = "PtrToInt"
       ELSE IF int_bitwidth(call.tys[1]) = 1
         THEN /\ Succeeded
              /\ builder[1].op = "PtrToInt"
              /\ builder[1].ty[1].scalar = int64
              /\ builder[Len(builder)].op = "icmpNE"
              /\ builder[Len(builder)].args[1] = InstHandle(1)
       ELSE Diagnosed /\ builder = <<>>

ValidHints ==
  /\ call.kw.cache_modifier \in {"", ".ca", ".cg"}
  /\ call.kw.eviction_policy \in {"", "evict_last", "evict_first"}

\* C13: load with a mask and no fill on a block of pointers succeeds with a
\* synthesized undefined fill of the pointer's shape, exactly one masked load
\* and no plain load.
C13_MaskedLoadSynthesizesFill ==
  (/\ Called("load")
   /\ is_ptr(LhsKind)
   /\ LhsShape # <<>>
   /\ call.kw.mask # <<>>
   /\ is_bool(call.kw.mask[1].type.scalar)
   /\ call.kw.mask[1].type.shape = LhsShape
   /\ call.kw.other = <<>>
   /\ ValidHints)
    => /\ Succeeded
       /\ CountOp("masked_load") = 1
       /\ CountOp("load") = 0
       /\ \E i \in 1..Len(builder) :
            /\ builder[i].op = "splat"
            /\ builder[i].args = <<ConstHandle("undef")>>
            /\ builder[i].shape = LhsShape

\* C14: load without mask and without fill on a pointer operand, scalar or
\* block, with a recognised cache modifier and eviction policy, emits exactly
\* one plain load and no masked load.
C14_PlainLoad ==
  (/\ Called("load")
   /\ is_ptr(LhsKind)
   /\ call.kw.mask = <<>>
   /\ call.kw.other = <<>>
   /\ ValidHints)
    => /\ Succeeded
       /\ CountOp("load") = 1
       /\ CountOp("masked_load") = 0

\* shape s is the store's shape or that of a scalar
FitsStore(s) == s = <<>> \/ s = LhsShape

\* C15: store casts the value to the pointee kind (an 8-bit integer for a
\* Bool pointee) and emits one plain store without a mask, one masked store
\* with a boolean mask, and fails without a store on a non-boolean mask.
C15_Store ==
  (/\ Called("store")
   /\ is_ptr(LhsKind)
   /\ RhsKind \in ArithmeticKinds \ {bfloat16}
   /\ FitsStore(RhsShape)
   /\ (call.kw.mask # <<>> => FitsStore(call.kw.mask[1].type.shape)))
    => IF call.kw.mask # <<>> /\ ~is_bool(call.kw.mask[1].type.scalar)
         THEN Diagnosed /\ OpsEmitted \cap {"store", "masked_store"} = {}
         ELSE /\ Succeeded
              /\ CountOp("store") = (IF call.kw.mask = <<>> THEN 1 ELSE 0)
              /\ CountOp("masked_store") = (IF call.kw.mask = <<>> THEN 0 ELSE 1)
              /\ OperandAs(builder[Len(builder)].args[2], Rhs, elt_ty_of(Lhs))

\* The classes of value a lane of the operand can hold.
LaneValues == {"positive", "negative", "+0", "-0", "NaN"}

\* the truth of mask handle h on a lane whose value is of class v and on
\* which the caller's mask is m; the float comparisons are the ordered ones
RECURSIVE Lane(_, _, _, _)
Lane(b, h, v, m) ==
  IF h.src # "inst" THEN m
  ELSE IF b[h.id].op = "and" THEN Lane(b, b[h.id].args[1], v, m) /\ Lane(b, b[h.id].args[2], v, m)
  ELSE IF b[h.id].op = "fcmpOGE" THEN v \in {"positive", "+0", "-0"}
  ELSE IF b[h.id].op = "fcmpOLT" THEN v = "negative"
  ELSE Lane(b, b[h.id].args[1], v, m)

RmwAt == {i \in 1..Len(builder) : builder[i].op = "atomic_rmw"}

\* a float atomic on a float pointee with operands of one shape and, if
\* given, a boolean mask of that shape
FloatAtomic(fn) ==
  /\ Called(fn)
  /\ is_ptr(LhsKind)
  /\ is_fp32(element(LhsKind))
  /\ is_fp32(RhsKind)
  /\ RhsShape = LhsShape
  /\ (call.kw.mask # <<>> => /\ is_bool(call.kw.mask[1].type.scalar)
                            /\ call.kw.mask[1].type.shape = LhsShape)

\* C16: float atomic max and min run two read-modify-writes whose masks,
\* mask & (value >= 0) and mask & (value < 0), are never both true on a lane,
\* whatever the lane holds; a negative value under a true mask is applied by
\* the negative-path op only.
C16_AtomicMasksDisjoint ==
  \A fn \in {"atomic_max", "atomic_min"} :
    FloatAtomic(fn)
      => /\ Succeeded
         /\ Cardinality(RmwAt) = 2
         /\ \A i \in RmwAt : \A j \in RmwAt \ {i} : \A v \in LaneValues : \A m \in BOOLEAN :
              ~(Lane(builder, builder[i].args[3], v, m) /\ Lane(builder, builder[j].args[3], v, m))
         /\ \A i \in RmwAt :
              Lane(builder, builder[i].args[3], "negative", TRUE)
                = (builder[i].attrs \in {<<"UMIN">>, <<"UMAX">>})

\* Sign-magnitude bit patterns of FloatBits bits as numbers 0 .. 2^FloatBits - 1;
\* none of them is a NaN.
FloatBits == 4
FloatPatterns == 0..(2^FloatBits - 1)
SignBit(p) == p >= 2^(FloatBits - 1)
FloatValue(p) == IF SignBit(p) THEN 0 - (p - 2^(FloatBits - 1)) ELSE p
SignedValue(p) == IF SignBit(p) THEN p - 2^FloatBits ELSE p
Greater(x, y) == IF x >= y THEN x ELSE y
Lesser(x, y) == IF x <= y THEN x ELSE y

\* what the location holds after atomic_rmw op of operand v on stored m
Rmw(op, m, v) ==
  IF op = "MAX" THEN (IF SignedValue(v) > SignedValue(m) THEN v ELSE m)
  ELSE IF op = "MIN" THEN (IF SignedValue(v) < SignedValue(m) THEN v ELSE m)
  ELSE IF op = "UMAX" THEN Greater(m, v)
  ELSE Lesser(m, v)

\* the op of the positive path when value >= 0, of the negative path when < 0
SplitRmw(pos_op, neg_op, m, v) ==
  IF FloatValue(v) >= 0 THEN Rmw(pos_op, m, v) ELSE Rmw(neg_op, m, v)

\* the op the call emitted under the mask that is true on lanes of class v
EmittedFor(v) == {builder[i].attrs[1] : i \in {j \in RmwAt : Lane(builder, builder[j].args[3], v, TRUE)}}

\* C17: on sign-magnitude bit patterns, signed MAX for v >= 0 and unsigned
\* MIN for v < 0 leave the float maximum of m and v, signed MIN and unsigned
\* MAX the float minimum; atomic_max and atomic_min emit exactly these ops on
\* their positive and negative paths.
C17_AtomicBitTrick ==
  /\ \A m \in FloatPatterns : \A v \in FloatPatterns :
       /\ FloatValue(SplitRmw("MAX", "UMIN", m, v)) = Greater(FloatValue(m), FloatValue(v))
       /\ FloatValue(SplitRmw("MIN", "UMAX", m, v)) = Lesser(FloatValue(m), FloatValue(v))
  /\ FloatAtomic("atomic_max")
       => Succeeded /\ EmittedFor("positive") = {"MAX"} /\ EmittedFor("negative") = {"UMIN"}
  /\ FloatAtomic("atomic_min")
       => Succeeded /\ EmittedFor("positive") = {"MIN"} /\ EmittedFor("negative") = {"UMAX"}

Reductions == {"min", "max", "sum", "xor_sum"}

\* C18: a reduction of an integer input of at most 32 bits reduces the input
\* cast to the 32-bit integer kind of its own signedness, the cast coming
\* before the reduce op; 64-bit integers and floats are reduced as they are.
C18_ReduceWidens ==
  (/\ pc = "done"
   /\ call.fn \in Reductions
   /\ LhsKind \in IntegerKinds \cup FloatingKinds
   /\ (call.fn = "xor_sum" => LhsKind \in IntegerKinds))
    => /\ Succeeded
       /\ builder[Len(builder)].op = "reduce"
       /\ IF LhsKind \in IntegerKinds /\ int_bitwidth(LhsKind) <= 32
            THEN /\ OperandAs(builder[Len(builder)].args[1], Lhs, int_ty(32, int_signedness(LhsKind)))
                 /\ Len(builder) = (IF int_bitwidth(LhsKind) = 32 THEN 1 ELSE 2)
            ELSE /\ builder[Len(builder)].args[1] = Lhs.handle
                 /\ Len(builder) = 1

\* C19: floor-divide with a floating operand fails with a type diagnostic and
\* no divide; of two integers of equal signedness it brings both to the
\* integer-promoted kind and emits exactly one divide, signed or unsigned by
\* that kind.
C19_Floordiv ==
  (Called("floordiv") /\ LhsKind \in ArithmeticKinds /\ RhsKind \in ArithmeticKinds /\ Broadcastable)
    => IF is_floating(LhsKind) \/ is_floating(RhsKind)
         THEN Diagnosed /\ OpsEmitted \cap {"sdiv", "udiv"} = {}
       ELSE IF /\ LhsKind \in IntegerKinds
               /\ RhsKind \in IntegerKinds
               /\ int_signedness(LhsKind) = int_signedness(RhsKind)
         THEN /\ Succeeded
              /\ ret.val[1].type.scalar = Promoted(LhsKind, RhsKind)
              /\ CountOp("sdiv") + CountOp("udiv") = 1
              /\ builder[Len(builder)].op =
                   (IF is_int_signed(Promoted(LhsKind, RhsKind)) THEN "sdiv" ELSE "udiv")
              /\ OperandAs(builder[Len(builder)].args[1], Lhs, Promoted(LhsKind, RhsKind))
              /\ OperandAs(builder[Len(builder)].args[2], Rhs, Promoted(LhsKind, RhsKind))
       ELSE TRUE

\* C20: true-divide of an integer and a floating operand, in either order,
\* gives the floating operand's kind and divides the float operand and the
\* integer operand cast to that kind.
C20_TruedivIntFloat ==
  /\ (Called("truediv") /\ LhsKind \in IntegerKinds /\ RhsKind \in FloatingKinds /\ Broadcastable)
       => /\ Succeeded
          /\ ret.val[1].type.scalar = RhsKind
          /\ builder[Len(builder)].op = "fdiv"
          /\ OperandAs(builder[Len(builder)].args[1], Lhs, RhsKind)
          /\ DerivedFrom(builder[Len(builder)].args[2], Rhs)
  /\ (Called("truediv") /\ LhsKind \in FloatingKinds /\ RhsKind \in IntegerKinds /\ Broadcastable)
       => /\ Succeeded
          /\ ret.val[1].type.scalar = LhsKind
          /\ builder[Len(builder)].op = "fdiv"
          /\ DerivedFrom(builder[Len(builder)].args[1], Lhs)
          /\ OperandAs(builder[Len(builder)].args[2], Rhs, LhsKind)

BinaryLowerings ==
  {"add", "sub", "mul", "truediv", "floordiv", "fdiv", "mod", "and_", "greater_equal"}

ShapeErrorRaised ==
  /\ ret.err # <<>>
  /\ ret.err[1].msg \in {RankError.msg, DimensionError(0, 0, 0).msg}

\* C21: in every binary lowering function the shapes are checked before any
\* rule on the scalar kinds: a call whose operand shapes do not broadcast
\* raises the shape error, whatever the operands' kinds, legal or not.
C21_ShapeErrorFirst ==
  (pc = "done" /\ call.fn \in BinaryLowerings /\ ~Broadcastable) => ShapeErrorRaised

\* the shape both operands are brought to
CommonShape ==
  IF LhsShape = <<>> THEN RhsShape
  ELSE IF RhsShape = <<>> THEN LhsShape
  ELSE Resolved(LhsShape, RhsShape)

\* C22: broadcast_impl_value changes shapes only: each returned operand has
\* the element kind of the operand it was made from and the common shape,
\* for block/block, block/scalar and scalar/block pairs; operands whose
\* shapes already agree are returned as they are, with nothing emitted.
C22_BroadcastKeepsKinds ==
  (Called("broadcast_impl_value") /\ Broadcastable)
    => /\ Succeeded
       /\ ret.val[1].type.scalar = LhsKind
       /\ ret.val[2].type.scalar = RhsKind
       /\ ret.val[1].type.shape = CommonShape
       /\ ret.val[2].type.shape = CommonShape
       /\ (LhsShape = RhsShape => ret.val = <<Lhs, Rhs>> /\ builder = <<>>)

\* C24: every cast that succeeds returns a Value of the target kind and of
\* the input's shape, the casts of a pointer and of any other kind to Bool
\* included.
C24_CastResultType ==
  (Called("cast") /\ Succeeded)
    => /\ ret.val[1].type.scalar = call.tys[1]
       /\ ret.val[1].type.shape = LhsShape

\* the binary operators, cast, load and store
Lowerings == BinaryLowerings \cup {"cast", "cast_back", "load", "store"}

\* C23: a lowering call that raises leaves the builder as it found it: no
\* splat, broadcast, cast or other instruction was appended by that call.
C23_FailureLeavesBuilder ==
  [][(pc' = "done" /\ call'.fn \in Lowerings /\ ret'.err # <<>>) => builder' = builder]_vars

====
